---- MODULE Spec2Model ----
(***************************************************************************)
(* Model of the windows native layer of gazed/vu: the window / OpenGL      *)
(* context bootstrap (gs_context, in its two versions device/os_windows.c  *)
(* and device/os_wgl_windows.c) and the fullscreen toggle                  *)
(* (dev_toggle_fullscreen).  The host (Win32 / WGL) is modelled as a       *)
(* record of the objects it holds; every host call made by the code is an  *)
(* operator on that record and is appended to host.calls in program order. *)
(***************************************************************************)
EXTENDS Integers, Sequences, FiniteSets, TLC

\* ------------------------------------------------------------------ bounds
\* Number of gs_context calls made in one process.
MaxRuns == 2

\* ------------------------------------------------------------- host values
NULL == 0
\* An indeterminate non-null value: what a read of an uninitialized local
\* (HGLRC initialContext; int pixelFormat;) may yield besides 0.
Garbage == -1
\* The device context GetDC returns for a NULL window (the whole screen).
ScreenDC == -2
\* Pixel format chosen by ChoosePixelFormat (the simple API).
PlainFmt == 1
\* Pixel format chosen by wglChoosePixelFormatARB (the attribute API).
AttrFmt == 2

\* The extended entry points bound under the throwaway context.
ExtNames ==
    { "wglGetExtensionsStringEXT", "wglSwapIntervalEXT",
      "wglGetExtensionsStringARB", "wglCreateContextAttribsARB",
      "wglGetPixelFormatAttribivARB", "wglChoosePixelFormatARB" }

VARIABLES
    variant,              \* which gs_context is linked: "os_windows" | "os_wgl_windows"
    pc,                   \* position inside gs_context
    runs,                 \* completed gs_context calls
    host,                 \* windows, device contexts, GL contexts held by the host
    display,              \* HWND  display (caller's out-parameter)
    shell,                \* HDC   shell   (caller's out-parameter)
    context,              \* HGLRC context: what the caller stored from the last call
    gs_ext,               \* the gs_wgl* entry points that are non-NULL
    initialContext,       \* local of gs_context
    initial_pixelFormat,  \* local of gs_context
    pixelformat,          \* local of gs_context
    ret,                  \* value returned by gs_context
    entry,                \* host counters and caller's context when gs_context was entered
    dev_screen,           \* static screenInfo dev_screen (os_windows.c 30)
    wnd,                  \* style, extended style and rectangles of the display window
    posted,               \* WM_EXITSIZEMOVE messages posted and not yet dispatched
    inputs,               \* handleInput calls made by the last operation, in order
    toggled,              \* the window before the last entry to fullscreen, and what followed
    dev_win_alive,        \* long dev_win_alive (os_windows.c 24)
    run_pc,               \* position inside dev_run
    msgq,                 \* the thread's message queue, oldest first
    note,                 \* the notification handed to gs_wnd_proc
    out,                  \* what gs_wnd_proc did with it
    received,             \* every handleInput call since dev_run started, in order
    produced,             \* every notification the host queued, in order
    evq,                  \* the event queue between the notification handler and poll
    run,                  \* the last turn of dev_run's loop and the dev_dispose calls made
    defaults,             \* struct AppDefaults defaults (os_linux.c 21)
    setter,               \* the last gs_set_attr call and the defaults before it
    held,                 \* the modifier keys held down, as their mask bits
    poll                  \* the last gs_read_dispatch call: what it left in *gs_urge

bootVars == << variant, pc, runs, host, display, shell, context, gs_ext,
               initialContext, initial_pixelFormat, pixelformat, ret, entry >>

screenVars == << dev_screen, wnd, posted, inputs, toggled >>

inputVars == << dev_win_alive, run_pc, msgq, note, out, received, produced, evq, run >>

linuxVars == << defaults, setter, held, poll >>

vars == << variant, pc, runs, host, display, shell, context, gs_ext,
           initialContext, initial_pixelFormat, pixelformat, ret, entry,
           dev_screen, wnd, posted, inputs, toggled,
           dev_win_alive, run_pc, msgq, note, out, received, produced, evq, run,
           defaults, setter, held, poll >>

\* struct AppDefaults defaults = { 100, 100, 240, 280, 8, 24, "App" }.
AppDefaults ==
    [gs_ShellX |-> 100, gs_ShellY |-> 100, gs_ShellWidth |-> 240,
     gs_ShellHeight |-> 280, gs_AlphaSize |-> 8, gs_DepthSize |-> 24,
     gs_AppName |-> << "A", "p", "p" >>]

\* No setter has been called.
NoSetter == [op |-> "none", attr |-> 0, value |-> 0, before |-> AppDefaults, n |-> 0]

\* GSEvent gsu = {-1, 0, 0, 0, 0, 0} (os_linux_test.c 41-48): what the caller
\* passes to gs_read_dispatch.
CallerUrge ==
    [event |-> -1, mousex |-> 0, mousey |-> 0, key |-> 0, mods |-> 0, scroll |-> 0]

\* gs_read_dispatch has not been called.
NoPoll == [done |-> FALSE, urge |-> CallerUrge, held |-> {}, pending |-> 0]

LinuxIdle ==
    /\ defaults = AppDefaults
    /\ setter = NoSetter
    /\ held = {}
    /\ poll = NoPoll

\* No notification at hand, nothing done with one.
NoNote == [msg |-> "none", wParam |-> [hi |-> 0, lo |-> 0]]
NoOut  == [in |-> << >>, host |-> << "none" >>, alive |-> 0]

\* The event queue that gs_read_dispatch (os_windows.h 57) fills and drains:
\* a circular buffer of Capacity slots with the indices front and rear, and
\* the number of unread events.  pushed and polled are the events written
\* and read so far, atFirstPoll the number written when poll first read one
\* (-1 before).
Capacity == 5
NoEvent == [event |-> "none", data |-> 0]
EmptyQueue ==
    [ buf |-> [i \in 0..(Capacity - 1) |-> NoEvent], front |-> 0, rear |-> 0,
      count |-> 0, pushed |-> << >>, polled |-> << >>, atFirstPoll |-> -1 ]

\* Of the last turn of dev_run's loop: the messages it took (took), handed
\* to DispatchMessage (dispatched), its renderFrame calls (frames) and the
\* callback that called dev_dispose (cb).  Of dev_dispose: the calls made
\* (disposals), those made in a row just now (streak), and the length of the
\* host's call log when the last one began (logAt).  prep counts the
\* prepRender calls.
NoRun ==
    [took |-> 0, dispatched |-> 0, frames |-> 0, cb |-> "none",
     disposals |-> 0, streak |-> 0, logAt |-> 0, prep |-> 0]

\* dev_run has not been called: long dev_win_alive = -1.
InputIdle ==
    /\ dev_win_alive = -1
    /\ run_pc = "idle"
    /\ msgq = << >>
    /\ note = NoNote
    /\ out = NoOut
    /\ received = << >>
    /\ produced = << >>
    /\ evq = EmptyQueue
    /\ run = NoRun

\* ---------------------------------------------------------------- the host
B2I(b) == IF b THEN 1 ELSE 0

Call(op, arg, res) == [op |-> op, arg |-> arg, res |-> res]

Logged(h, op, arg, res) == [h EXCEPT !.calls = Append(@, Call(op, arg, res))]

HostInit ==
    [ classRegistered |-> FALSE,
      winLive  |-> {},          \* windows that exist
      winFmt   |-> << >>,       \* pixel format set on each window's DC (0: none)
      winShown |-> {},          \* windows made visible
      ctxLive  |-> {},          \* GL contexts that exist
      ctxDC    |-> << >>,       \* the DC (window) each context was created against
      curCtx   |-> NULL,        \* wglGetCurrentContext()
      nextWin  |-> 1,
      nextCtx  |-> 1,
      capture  |-> NULL,        \* the window that has the mouse capture
      down     |-> {},          \* the mouse buttons held down
      hidden   |-> FALSE,       \* the cursor was last hidden, not shown
      calls    |-> << >> ]

\* RegisterClassEx fails when the class name is already registered.
RegisterClassExOk(h) == ~h.classRegistered

RegisterClassEx(h) ==
    Logged([h EXCEPT !.classRegistered = TRUE],
           "RegisterClassEx", 0, B2I(RegisterClassExOk(h)))

\* The handles CreateWindowEx can return: NULL or a window that did not exist.
CreateWindowExResults(h) ==
    IF h.classRegistered THEN {NULL, h.nextWin} ELSE {NULL}

CreateWindowEx(h, hwnd) ==
    IF hwnd = NULL
    THEN Logged(h, "CreateWindowEx", 0, NULL)
    ELSE Logged([h EXCEPT !.winLive = @ \cup {hwnd},
                          !.winFmt  = @ @@ (hwnd :> 0),
                          !.nextWin = @ + 1],
                "CreateWindowEx", 0, hwnd)

\* A window's device context is identified with the window (CS_OWNDC).
GetDC(h, hwnd) ==
    IF hwnd = NULL THEN ScreenDC
    ELSE IF hwnd \in h.winLive THEN hwnd ELSE NULL

DCFmt(h, dc) == IF dc \in h.winLive THEN h.winFmt[dc] ELSE 0

\* The pixel format of a window can be set once only.
SetPixelFormat(h, dc, fmt) ==
    IF dc \in h.winLive /\ h.winFmt[dc] = 0 /\ fmt \in {PlainFmt, AttrFmt}
    THEN Logged([h EXCEPT !.winFmt[dc] = fmt], "SetPixelFormat", dc, fmt)
    ELSE Logged(h, "SetPixelFormat", dc, 0)

\* A context can be created only on a DC whose pixel format is set.
CreateContextResults(h, dc) ==
    IF DCFmt(h, dc) # 0 THEN {NULL, h.nextCtx} ELSE {NULL}

CreateContext(h, op, dc, ctx) ==
    IF ctx = NULL
    THEN Logged(h, op, dc, NULL)
    ELSE Logged([h EXCEPT !.ctxLive = @ \cup {ctx},
                          !.ctxDC   = @ @@ (ctx :> dc),
                          !.nextCtx = @ + 1],
                op, dc, ctx)

wglMakeCurrentResults(h, ctx) ==
    IF ctx = NULL THEN {TRUE}
    ELSE IF ctx \in h.ctxLive THEN {TRUE, FALSE} ELSE {FALSE}

wglMakeCurrent(h, ctx, ok) ==
    Logged(IF ok THEN [h EXCEPT !.curCtx = ctx] ELSE h,
           "wglMakeCurrent", ctx, B2I(ok))

wglDeleteContext(h, ctx) ==
    Logged([h EXCEPT !.ctxLive = @ \ {ctx},
                     !.curCtx  = IF @ = ctx THEN NULL ELSE @],
           "wglDeleteContext", ctx, B2I(ctx \in h.ctxLive))

ReleaseDC(h, hwnd) == Logged(h, "ReleaseDC", hwnd, B2I(hwnd \in h.winLive))

DestroyWindow(h, hwnd) ==
    Logged([h EXCEPT !.winLive = @ \ {hwnd}, !.winShown = @ \ {hwnd}],
           "DestroyWindow", hwnd, B2I(hwnd \in h.winLive))

ShowWindow(h, hwnd) ==
    Logged(IF hwnd \in h.winLive THEN [h EXCEPT !.winShown = @ \cup {hwnd}] ELSE h,
           "ShowWindow", hwnd, B2I(hwnd \in h.winLive))

SetForegroundWindow(h, hwnd) ==
    Logged(h, "SetForegroundWindow", hwnd, B2I(hwnd \in h.winLive))

\* wglGetProcAddress resolves extension entry points only while a context is
\* current; which of them the driver has is the host's choice.
wglGetProcAddressResults(h) ==
    IF h.curCtx = NULL THEN { {} } ELSE SUBSET ExtNames


\* ChoosePixelFormat returns 0 when no format of the simple API fits.
ChoosePixelFormatResults(h, dc) ==
    IF dc = NULL THEN {0} ELSE {0, PlainFmt}

\* wglChoosePixelFormatARB writes a format only when one matches; with no
\* match it reports nNumFormats = 0 and leaves *piFormats as it was, so the
\* local "int pixelFormat;" is then read uninitialized.
wglChoosePixelFormatARBResults(matched) ==
    IF matched THEN {AttrFmt} ELSE {0, Garbage}

\* ------------------------------------------------------ helpers of the code
gs_create_window(h, hwnd) == CreateWindowEx(h, hwnd)

gs_get_initial_pixelformat(h, dc, pixelFormat) ==
    LET h1 == Logged(h, "ChoosePixelFormat", dc, pixelFormat)
    IN  IF pixelFormat # 0 THEN SetPixelFormat(h1, dc, pixelFormat) ELSE h1

gs_get_pixelformat(h, dc, matched, pixelFormat) ==
    LET h1 == Logged(h, "wglChoosePixelFormatARB", dc, B2I(matched))
    IN  IF pixelFormat # 0 THEN SetPixelFormat(h1, dc, pixelFormat) ELSE h1

\* gs_display_dispose without its DestroyWindow.
gs_display_dispose_keeps_window(h, hwnd) ==
    LET ctx == h.curCtx
        h1  == wglMakeCurrent(h, NULL, TRUE)
        h2  == wglDeleteContext(h1, ctx)
    IN  ReleaseDC(h2, hwnd)

\* gs_display_dispose with the window destroyed before its DC is released.
gs_display_dispose_window_first(h, hwnd) ==
    LET ctx == h.curCtx
        h1  == wglMakeCurrent(h, NULL, TRUE)
        h2  == wglDeleteContext(h1, ctx)
        h3  == DestroyWindow(h2, hwnd)
    IN  ReleaseDC(h3, hwnd)

gs_display_dispose(h, hwnd) ==
    LET ctx == h.curCtx
        h1  == wglMakeCurrent(h, NULL, TRUE)
        h2  == wglDeleteContext(h1, ctx)
        h3  == ReleaseDC(h2, hwnd)
    IN  DestroyWindow(h3, hwnd)

\* The NULL test with the entry points bootstrap itself calls only.
AllBound_used_only(ext) ==
    {"wglCreateContextAttribsARB", "wglChoosePixelFormatARB"} \subseteq ext

\* The six NULL tests after binding: TRUE when every entry point resolved.
AllBound(ext) == ext = ExtNames

\* initialContext when the failed wglMakeCurrent is not acted on.
InitialContextAfter_unchecked(ctx, ok) == ctx

\* The value initialContext holds after wglCreateContext returned ctx and
\* wglMakeCurrent returned ok: a context that cannot be made current is
\* deleted and forgotten.
InitialContextAfter(ctx, ok) == IF ctx # NULL /\ ~ok THEN NULL ELSE ctx

\* "if (initialContext == NULL) return 0".
InitialContextFailed(ic) == ic = NULL

\* "if (pixelformat == 0) return 0".
PixelFormatFailed(pf) == pf = 0

\* What gs_context returns once the final context ctx was asked for and
\* wglMakeCurrent answered ok.  os_windows.c tests only the creation;
\* os_wgl_windows.c tests the creation and the activation.
FinalResult(v, ctx, ok) ==
    IF v = "os_windows"
    THEN ctx
    ELSE IF ctx # NULL /\ ok THEN ctx ELSE 0


\* ------------------------------------------------- the window's geometry
\* Bounds of the window placements explored.
MaxPos == 1
MaxExtent == 0
\* Posted messages that may wait in the host queue.
MaxPosted == 2

\* Host metrics (GetSystemMetrics): width of a sizing border, height of a
\* caption.
BorderSize == 1
CaptionSize == 2
\* Smallest outer window extent explored: leaves a client area inside the
\* decorations.
MinExtent == 2 * BorderSize + CaptionSize + 1

\* rcMonitor of the monitor the window is on.
MonitorRect ==
    [left |-> 0, top |-> 0,
     right |-> MaxPos + MinExtent + MaxExtent + 2,
     bottom |-> MaxPos + MinExtent + MaxExtent + 1]

Rect(l, t, r, b) == [left |-> l, top |-> t, right |-> r, bottom |-> b]

\* The width taken to be the right edge.
RectWidth_right_edge(r) == r.right

\* "m_rect.right-m_rect.left" and "m_rect.bottom-m_rect.top".
RectWidth(r) == r.right - r.left
RectHeight(r) == r.bottom - r.top

\* gs_create_window: WS_TILEDWINDOW | WS_CLIPCHILDREN | WS_CLIPSIBLINGS, shown.
WindowStyle ==
    { "WS_CAPTION", "WS_SYSMENU", "WS_THICKFRAME", "WS_MINIMIZEBOX",
      "WS_MAXIMIZEBOX", "WS_CLIPCHILDREN", "WS_CLIPSIBLINGS", "WS_VISIBLE" }

\* gs_create_window: WS_EX_APPWINDOW; the host adds WS_EX_WINDOWEDGE to a
\* window that has a caption or a sizing border.
WindowExStyle == { "WS_EX_APPWINDOW", "WS_EX_WINDOWEDGE" }

\* The style bits dev_toggle_fullscreen strips.
FrameBits == { "WS_CAPTION", "WS_THICKFRAME" }
ExFrameBits ==
    { "WS_EX_DLGMODALFRAME", "WS_EX_WINDOWEDGE", "WS_EX_CLIENTEDGE",
      "WS_EX_STATICEDGE" }

\* Client area of a window with outer rectangle r and style st.
ClientOf(r, st) ==
    LET bd  == IF "WS_THICKFRAME" \in st THEN BorderSize ELSE 0
        cap == IF "WS_CAPTION" \in st THEN CaptionSize ELSE 0
    IN  [w |-> RectWidth(r) - 2 * bd, h |-> RectHeight(r) - 2 * bd - cap]

NewWindow(r) ==
    [ style    |-> WindowStyle,
      ex_style |-> WindowExStyle,
      rect     |-> r,                        \* GetWindowRect
      normal   |-> r,                        \* the restored placement
      client   |-> ClientOf(r, WindowStyle)  \* GetClientRect
    ]

\* gs_wnd_proc, case WM_SIZE (os_windows.c 130-137): the events it hands to
\* handleInput, appended to in.
gs_wnd_proc_WM_SIZE(in, wParam) ==
    IF wParam = "SIZE_MAXIMIZED" \/ wParam = "SIZE_RESTORED"
    THEN Append(in, [event |-> "devResize", data |-> 0])
    ELSE in

\* gs_wnd_proc, case WM_EXITSIZEMOVE (os_windows.c 138-142).
gs_wnd_proc_WM_EXITSIZEMOVE(in) ==
    Append(in, [event |-> "devResize", data |-> 0])

\* A host window together with the input events its notifications caused:
\* x.w is the window, x.in the handleInput calls so far.
IsZoomed(w) == "WS_MAXIMIZE" \in w.style

\* The host sends WM_SIZE, synchronously, when the client area changed.
Resized(x, w) ==
    [ w  |-> w,
      in |-> IF w.client # x.w.client
             THEN gs_wnd_proc_WM_SIZE(x.in, IF IsZoomed(w) THEN "SIZE_MAXIMIZED"
                                                            ELSE "SIZE_RESTORED")
             ELSE x.in ]

\* SendMessage(display, WM_SYSCOMMAND, SC_RESTORE, 0)
SC_RESTORE(x) ==
    IF IsZoomed(x.w)
    THEN LET st == x.w.style \ {"WS_MAXIMIZE"}
         IN  Resized(x, [x.w EXCEPT !.style = st, !.rect = x.w.normal,
                                    !.client = ClientOf(x.w.normal, st)])
    ELSE x

\* SendMessage(display, WM_SYSCOMMAND, SC_MAXIMIZE, 0)
SC_MAXIMIZE(x) ==
    IF IsZoomed(x.w)
    THEN x
    ELSE LET st == x.w.style \cup {"WS_MAXIMIZE"}
         IN  Resized(x, [x.w EXCEPT !.style = st, !.normal = x.w.rect,
                                    !.rect = MonitorRect,
                                    !.client = ClientOf(MonitorRect, st)])

\* SetWindowLong(display, GWL_STYLE, st); SetWindowLong(display, GWL_EXSTYLE, ex)
SetWindowLong(x, st, ex) ==
    [x EXCEPT !.w.style = st, !.w.ex_style = ex]

\* SetWindowPos(display, .., x, y, cx, cy, .. | SWP_FRAMECHANGED)
SetWindowPos(x, l, t, cx, cy) ==
    LET r == Rect(l, t, l + cx, t + cy)
    IN  Resized(x, [x.w EXCEPT !.rect = r,
                               !.normal = IF IsZoomed(x.w) THEN @ ELSE r,
                               !.client = ClientOf(r, x.w.style)])

\* if (!dev_screen.full) (os_windows.c 510): the call enters fullscreen.
Entering_always(ds) == TRUE
Entering(ds) == ~ds.full

\* os_windows.c 512-519: note whether the window is maximized, restore it if
\* so, then save its style, extended style and rectangle.
TakeSnapshot_before_restore(ds, x) ==
    LET maxed == IsZoomed(x.w)
        x1    == IF maxed THEN SC_RESTORE(x) ELSE x
    IN  [ ds |-> [ds EXCEPT !.maxed = maxed, !.style = x.w.style,
                            !.ex_style = x.w.ex_style, !.rect = x.w.rect],
          x  |-> x1 ]
TakeSnapshot(ds, x) ==
    LET maxed == IsZoomed(x.w)
        x1    == IF maxed THEN SC_RESTORE(x) ELSE x
    IN  [ ds |-> [ds EXCEPT !.maxed = maxed, !.style = x1.w.style,
                            !.ex_style = x1.w.ex_style, !.rect = x1.w.rect],
          x  |-> x1 ]

\* os_windows.c 524-535: strip the frame and cover the monitor.
EnterFullscreen(ds, x) ==
    LET m == MonitorRect
    IN  SetWindowPos(SetWindowLong(x, ds.style \ FrameBits,
                                      ds.ex_style \ ExFrameBits),
                     m.left, m.top, RectWidth(m), RectHeight(m))

\* os_windows.c 539-548: put back the saved style and rectangle, then
\* maximize again if the window was maximized on entry.
LeaveFullscreen_stays_restored(ds, x) ==
    LET r == ds.rect
    IN  SetWindowPos(SetWindowLong(x, ds.style, ds.ex_style),
                     r.left, r.top, RectWidth(r), RectHeight(r))
LeaveFullscreen(ds, x) ==
    LET r  == ds.rect
        x3 == SetWindowPos(SetWindowLong(x, ds.style, ds.ex_style),
                           r.left, r.top, RectWidth(r), RectHeight(r))
    IN  IF ds.maxed THEN SC_MAXIMIZE(x3) ELSE x3

\* dev_toggle_fullscreen (os_windows.c 508-551) on snapshot ds and window x;
\* the result holds the new snapshot and the new window.
dev_toggle_fullscreen_body(ds, x) ==
    LET s   == IF Entering(ds) THEN TakeSnapshot(ds, x) ELSE [ds |-> ds, x |-> x]
        ds2 == [s.ds EXCEPT !.full = ~ds.full]
        x2  == IF ds2.full THEN EnterFullscreen(ds2, s.x)
                           ELSE LeaveFullscreen(ds2, s.x)
    IN  [ds |-> ds2, x |-> x2]

\* static screenInfo dev_screen = {0, 0, 0, 0, {0, 0, 0, 0}};
dev_screen_init ==
    [full |-> FALSE, maxed |-> FALSE, style |-> {}, ex_style |-> {},
     rect |-> Rect(0, 0, 0, 0)]

\* unsigned char dev_fullscreen()
dev_fullscreen == dev_screen.full

\* The placements a window is given in this model.
Placements ==
    { Rect(l, t, l + MinExtent + dw, t + MinExtent + dh) :
        l \in 0..MaxPos, t \in 0..MaxPos, dw \in 0..MaxExtent, dh \in 0..MaxExtent }

\* What the model remembers of the calls made: op is the last operation,
\* last the toggle history, before the window as it was when fullscreen was
\* last entered, posts the messages the last operation posted.
NoToggle ==
    [op |-> "none", last |-> "none", before |-> NewWindow(Rect(0, 0, 0, 0)),
     posts |-> 0, asked |-> [x |-> 0, y |-> 0, w |-> 0, h |-> 0]]

\* "y = desk.bottom - y - h" (os_windows.c 610): the top edge, in the host's
\* top-left coordinates, of an area of height h whose bottom is y above the
\* bottom of the desktop.
FlipY_no_height(desk, y, h) == desk.bottom - y
FlipY(desk, y, h) == desk.bottom - y - h

\* dev_set_size (os_windows.c 600-617) on window x.w: the decoration is the
\* difference between the window rectangle and the client rectangle.
dev_set_size_body(x, a) ==
    LET desk   == MonitorRect                  \* GetWindowRect(GetDesktopWindow())
        wind   == x.w.rect                     \* GetWindowRect(display)
        disp   == x.w.client                   \* GetClientRect(display)
        xExtra == wind.right - wind.left - disp.w
        yExtra == wind.bottom - wind.top - disp.h
    IN  SetWindowPos(x, a.x, FlipY(desk, a.y, a.h), a.w + xExtra, a.h + yExtra)

\* dev_size (os_windows.c 621-633): the values written to *x, *y, *w, *h.
dev_size(w) ==
    LET rect    == w.client
        desktop == MonitorRect
        window  == w.rect
        yExtra  == window.bottom - window.top - rect.h
    IN  [x |-> window.left,
         y |-> desktop.bottom - window.bottom + yExtra,
         w |-> rect.w,
         h |-> rect.h]

\* The arguments dev_set_size is called with in this model.
SizeArgs ==
    [x : 0..MaxPos, y : 0..MaxPos, w : 1..(1 + MaxExtent), h : 1..(1 + MaxExtent)]

\* ------------------------------------------------------------------- Init
InitBoot ==
    /\ variant \in {"os_windows", "os_wgl_windows"}
    /\ pc = "idle"
    /\ runs = 0
    /\ host = HostInit
    /\ display = NULL
    /\ shell = NULL
    /\ context = NULL
    /\ gs_ext = {}
    /\ initialContext = NULL
    /\ initial_pixelFormat = 0
    /\ pixelformat = 0
    /\ ret = 0
    /\ entry = [nextWin |-> 1, nextCtx |-> 1, context |-> NULL, display |-> NULL]

\* The bootstrap is followed for a window of one placement.
Init ==
    /\ InitBoot
    /\ dev_screen = dev_screen_init
    /\ wnd = NewWindow(Rect(0, 0, MinExtent, MinExtent))
    /\ posted = 0
    /\ inputs = << >>
    /\ toggled = NoToggle
    /\ LinuxIdle
    /\ InputIdle

\* The fullscreen controller is followed on the window of os_windows.c, in
\* any placement, with the bootstrap left idle.
InitScreen ==
    /\ InitBoot
    /\ variant = "os_windows"
    /\ dev_screen = dev_screen_init
    /\ \E r \in Placements : wnd = NewWindow(r)
    /\ posted = 0
    /\ inputs = << >>
    /\ toggled = NoToggle
    /\ LinuxIdle
    /\ InputIdle

\* Leave gs_context with value r.
Return(r) == ret' = r /\ pc' = "done"

\* --------------------------------------------------------------- actions
\* The caller of os_wgl_windows.c's gs_context creates the first window and
\* its shell before the call (gs_display_init, gs_shell of os_windows.h).
gs_display_init ==
    /\ UNCHANGED screenVars
    /\ UNCHANGED inputVars
    /\ UNCHANGED linuxVars
    /\ variant = "os_wgl_windows"
    /\ pc = "idle"
    /\ runs < MaxRuns
    /\ display = NULL
    /\ LET h1   == RegisterClassEx(host)
           hwnd == h1.nextWin
           h2   == CreateWindowEx(h1, hwnd)
       IN  /\ host' = h2
           /\ display' = hwnd
           /\ shell' = GetDC(h2, hwnd)
    /\ UNCHANGED << variant, pc, runs, context, gs_ext, initialContext,
                    initial_pixelFormat, pixelformat, ret, entry >>

\* gs_context is entered.
gs_context_enter ==
    /\ UNCHANGED screenVars
    /\ UNCHANGED inputVars
    /\ UNCHANGED linuxVars
    /\ pc = "idle"
    /\ run_pc = "idle"
    /\ runs < MaxRuns
    /\ variant = "os_wgl_windows" => display # NULL
    /\ pc' = IF variant = "os_windows" THEN "register" ELSE "initial_format"
    /\ host' = [host EXCEPT !.calls = << >>]
    /\ entry' = [nextWin |-> host.nextWin, nextCtx |-> host.nextCtx,
                 context |-> context, display |-> display]
    /\ initialContext' = NULL
    /\ initial_pixelFormat' = 0
    /\ pixelformat' = 0
    /\ ret' = 0
    /\ UNCHANGED << variant, runs, display, shell, context, gs_ext >>

\* os_windows.c 334-352: register the window class.
gs_context_register ==
    /\ UNCHANGED screenVars
    /\ UNCHANGED inputVars
    /\ UNCHANGED linuxVars
    /\ pc = "register"
    /\ host' = RegisterClassEx(host)
    /\ IF RegisterClassExOk(host)
       THEN pc' = "window1" /\ ret' = ret
       ELSE Return(0)
    /\ UNCHANGED << variant, runs, display, shell, context, gs_ext,
                    initialContext, initial_pixelFormat, pixelformat, entry >>

\* os_windows.c 354-362: the initial window.  "if (shell == NULL)" tests the
\* out-parameter itself, which is never NULL, so nothing returns here.
gs_context_window1 ==
    /\ UNCHANGED screenVars
    /\ UNCHANGED inputVars
    /\ UNCHANGED linuxVars
    /\ pc = "window1"
    /\ \E hwnd \in CreateWindowExResults(host) :
         LET h1 == gs_create_window(host, hwnd)
         IN  /\ host' = h1
             /\ display' = hwnd
             /\ shell' = GetDC(h1, hwnd)
    /\ pc' = "initial_format"
    /\ UNCHANGED << variant, runs, context, gs_ext, initialContext,
                    initial_pixelFormat, pixelformat, ret, entry >>

\* os_windows.c 366 / os_wgl_windows.c 145.
gs_context_initial_format ==
    /\ UNCHANGED screenVars
    /\ UNCHANGED inputVars
    /\ UNCHANGED linuxVars
    /\ pc = "initial_format"
    /\ \E pf \in ChoosePixelFormatResults(host, shell) :
         /\ host' = gs_get_initial_pixelformat(host, shell, pf)
         /\ initial_pixelFormat' = pf
    /\ pc' = "initial_context"
    /\ UNCHANGED << variant, runs, display, shell, context, gs_ext,
                    initialContext, pixelformat, ret, entry >>

\* os_windows.c 365-383 / os_wgl_windows.c 144-161: the throwaway context.
\* initialContext is assigned only when a pixel format was found: otherwise
\* the test at 379 reads it uninitialized.
gs_context_initial_context ==
    /\ UNCHANGED screenVars
    /\ UNCHANGED inputVars
    /\ UNCHANGED linuxVars
    /\ pc = "initial_context"
    /\ \E ctx \in CreateContextResults(host, shell), ok \in BOOLEAN,
          junk \in {NULL, Garbage} :
         /\ ctx = NULL => ~ok
         /\ initial_pixelFormat # 0 => junk = NULL
         /\ initial_pixelFormat = 0 => ctx = NULL
         /\ LET h1 == CreateContext(host, "wglCreateContext", shell, ctx)
                h2 == IF ctx # NULL THEN wglMakeCurrent(h1, ctx, ok) ELSE h1
                h3 == IF ctx # NULL /\ ~ok THEN wglDeleteContext(h2, ctx) ELSE h2
                ic == IF initial_pixelFormat # 0
                      THEN InitialContextAfter(ctx, ok)
                      ELSE junk
            IN  /\ host' = IF initial_pixelFormat # 0 THEN h3 ELSE host
                /\ initialContext' = ic
                /\ IF InitialContextFailed(ic)
                   THEN Return(0)
                   ELSE pc' = "bind" /\ ret' = ret
    /\ UNCHANGED << variant, runs, display, shell, context, gs_ext,
                    initial_pixelFormat, pixelformat, entry >>

\* os_windows.c 385-408 / os_wgl_windows.c 163-179: bind the extensions.
gs_context_bind ==
    /\ UNCHANGED screenVars
    /\ UNCHANGED inputVars
    /\ UNCHANGED linuxVars
    /\ pc = "bind"
    /\ \E ext \in wglGetProcAddressResults(host) :
         /\ gs_ext' = ext
         /\ host' = Logged(host, "wglGetProcAddress", 0, Cardinality(ext))
         /\ IF AllBound(ext)
            THEN pc' = "recreate" /\ ret' = ret
            ELSE Return(0)
    /\ UNCHANGED << variant, runs, display, shell, context, initialContext,
                    initial_pixelFormat, pixelformat, entry >>

\* os_windows.c 410-414 / os_wgl_windows.c 181-186: destroy the window and
\* the current context, create the window again.
gs_context_recreate ==
    /\ UNCHANGED screenVars
    /\ UNCHANGED inputVars
    /\ UNCHANGED linuxVars
    /\ pc = "recreate"
    /\ LET h1 == gs_display_dispose(host, display)
       IN  \E hwnd \in CreateWindowExResults(h1) :
             LET h2 == gs_create_window(h1, hwnd)
             IN  /\ host' = h2
                 /\ display' = hwnd
                 /\ shell' = GetDC(h2, hwnd)
    /\ pc' = "final_format"
    /\ UNCHANGED << variant, runs, context, gs_ext, initialContext,
                    initial_pixelFormat, pixelformat, ret, entry >>

\* os_windows.c 415-420 / os_wgl_windows.c 187-191.
gs_context_final_format ==
    /\ UNCHANGED screenVars
    /\ UNCHANGED inputVars
    /\ UNCHANGED linuxVars
    /\ pc = "final_format"
    /\ \E matched \in BOOLEAN :
         \E pf \in wglChoosePixelFormatARBResults(matched) :
           /\ host' = gs_get_pixelformat(host, shell, matched, pf)
           /\ pixelformat' = pf
           /\ IF PixelFormatFailed(pf)
              THEN Return(0)
              ELSE pc' = "final_context" /\ ret' = ret
    /\ UNCHANGED << variant, runs, display, shell, context, gs_ext,
                    initialContext, initial_pixelFormat, entry >>

\* os_windows.c 422-446 / os_wgl_windows.c 193-217: the final context.
gs_context_final_context ==
    /\ UNCHANGED screenVars
    /\ UNCHANGED inputVars
    /\ UNCHANGED linuxVars
    /\ pc = "final_context"
    /\ \E ctx \in CreateContextResults(host, shell), ok \in BOOLEAN :
         /\ ctx = NULL => ~ok
         /\ LET h1 == CreateContext(host, "wglCreateContextAttribsARB", shell, ctx)
                h2 == IF ctx # NULL THEN wglMakeCurrent(h1, ctx, ok) ELSE h1
                h3 == IF ctx # NULL /\ variant = "os_windows"
                      THEN SetForegroundWindow(ShowWindow(h2, display), display)
                      ELSE h2
            IN  /\ host' = h3
                /\ Return(FinalResult(variant, ctx, ok))
    /\ UNCHANGED << variant, runs, display, shell, context, gs_ext,
                    initialContext, initial_pixelFormat, pixelformat, entry >>

\* The caller keeps what gs_context returned (dev_run: context = gs_context(..)).
gs_context_return ==
    /\ UNCHANGED screenVars
    /\ UNCHANGED inputVars
    /\ UNCHANGED linuxVars
    /\ pc = "done"
    /\ pc' = "idle"
    /\ context' = ret
    /\ runs' = runs + 1
    /\ UNCHANGED << variant, host, display, shell, gs_ext, initialContext,
                    initial_pixelFormat, pixelformat, ret, entry >>

Next ==
    \/ gs_display_init
    \/ gs_context_enter
    \/ gs_context_register
    \/ gs_context_window1
    \/ gs_context_initial_format
    \/ gs_context_initial_context
    \/ gs_context_bind
    \/ gs_context_recreate
    \/ gs_context_final_format
    \/ gs_context_final_context
    \/ gs_context_return

Spec == Init /\ [][Next]_vars



\* ------------------------------------------------ fullscreen controller
\* dev_toggle_fullscreen (os_windows.c 508-551), with the size notifications
\* its host calls deliver to gs_wnd_proc and the message it posts.
dev_toggle_fullscreen ==
    /\ posted < MaxPosted
    /\ LET res == dev_toggle_fullscreen_body(dev_screen, [w |-> wnd, in |-> << >>])
       IN  /\ dev_screen' = res.ds
           /\ wnd' = res.x.w
           /\ inputs' = res.x.in
           /\ toggled' = IF dev_screen.full
                         THEN [toggled EXCEPT !.op = "toggle", !.posts = 1,
                                  !.last = IF @ = "enter" THEN "exit" ELSE "other"]
                         ELSE [toggled EXCEPT !.op = "toggle", !.last = "enter",
                                              !.before = wnd, !.posts = 1]
    /\ posted' = posted + 1          \* PostMessage(display, WM_EXITSIZEMOVE, 0, 0)
    /\ UNCHANGED bootVars
    /\ UNCHANGED inputVars
    /\ UNCHANGED linuxVars

\* dev_run (os_windows.c 467-477) takes the posted WM_EXITSIZEMOVE and
\* dispatches it to gs_wnd_proc.
DispatchMessage ==
    /\ posted > 0
    /\ posted' = posted - 1
    /\ inputs' = gs_wnd_proc_WM_EXITSIZEMOVE(<< >>)
    /\ toggled' = [toggled EXCEPT !.op = "dispatch", !.posts = 0]
    /\ UNCHANGED << dev_screen, wnd >>
    /\ UNCHANGED bootVars
    /\ UNCHANGED inputVars
    /\ UNCHANGED linuxVars

\* The user maximizes the window (title bar button, keyboard).
HostMaximize ==
    /\ ~IsZoomed(wnd)
    /\ LET x == SC_MAXIMIZE([w |-> wnd, in |-> << >>])
       IN  wnd' = x.w /\ inputs' = x.in
    /\ toggled' = [toggled EXCEPT !.op = "host", !.last = "other", !.posts = 0]
    /\ UNCHANGED << dev_screen, posted >>
    /\ UNCHANGED bootVars
    /\ UNCHANGED inputVars
    /\ UNCHANGED linuxVars

\* The user restores the maximized window.
HostRestore ==
    /\ IsZoomed(wnd)
    /\ LET x == SC_RESTORE([w |-> wnd, in |-> << >>])
       IN  wnd' = x.w /\ inputs' = x.in
    /\ toggled' = [toggled EXCEPT !.op = "host", !.last = "other", !.posts = 0]
    /\ UNCHANGED << dev_screen, posted >>
    /\ UNCHANGED bootVars
    /\ UNCHANGED inputVars
    /\ UNCHANGED linuxVars

\* The user drags or sizes the window to another placement; the drag ends
\* with WM_EXITSIZEMOVE.
HostMoveSize ==
    /\ ~IsZoomed(wnd)
    /\ "WS_CAPTION" \in wnd.style
    /\ \E r \in Placements :
         /\ r # wnd.rect
         /\ LET x == SetWindowPos([w |-> wnd, in |-> << >>], r.left, r.top,
                                  RectWidth(r), RectHeight(r))
            IN  /\ wnd' = x.w
                /\ inputs' = gs_wnd_proc_WM_EXITSIZEMOVE(x.in)
    /\ toggled' = [toggled EXCEPT !.op = "host", !.last = "other", !.posts = 0]
    /\ UNCHANGED << dev_screen, posted >>
    /\ UNCHANGED bootVars
    /\ UNCHANGED inputVars
    /\ UNCHANGED linuxVars

\* The application calls dev_set_size(a.x, a.y, a.w, a.h).
dev_set_size ==
    /\ \E a \in SizeArgs :
         LET x == dev_set_size_body([w |-> wnd, in |-> << >>], a)
         IN  /\ wnd' = x.w
             /\ inputs' = x.in
             /\ toggled' = [toggled EXCEPT !.op = "set_size", !.last = "other",
                                           !.posts = 0, !.asked = a]
    /\ UNCHANGED << dev_screen, posted >>
    /\ UNCHANGED bootVars
    /\ UNCHANGED inputVars
    /\ UNCHANGED linuxVars

\* The application places its window and toggles fullscreen.
NextSize ==
    \/ dev_set_size
    \/ dev_toggle_fullscreen

SpecSize == InitScreen /\ [][NextSize]_vars

NextScreen ==
    \/ dev_toggle_fullscreen
    \/ DispatchMessage
    \/ HostMaximize
    \/ HostRestore
    \/ HostMoveSize

SpecScreen == InitScreen /\ [][NextScreen]_vars

\* ------------------------------------------------- reading the call record
calls == host.calls

\* The positions of the calls of host function op in the current run.
Idx(op) == { i \in 1..Len(calls) : calls[i].op = op }

InRun == pc \notin {"idle"}
Returned == pc = "done"

\* ---------------------------------------------------------------- claims

\* C1: when gs_context returns a non-zero context, that context was created
\* against a window that is not the window of the throwaway context and not
\* a window that was given the plain pixel format; that window was created
\* after the first window had been destroyed.
C1_FinalWindowIsFresh ==
    (Returned /\ ret # 0) =>
        \E j \in Idx("wglCreateContextAttribsARB") :
            /\ calls[j].res = ret
            /\ \A i \in Idx("wglCreateContext") : calls[i].arg # calls[j].arg
            /\ \A i \in Idx("ChoosePixelFormat") : calls[i].arg # calls[j].arg
            /\ DCFmt(host, calls[j].arg) # PlainFmt
            /\ \A i \in Idx("ChoosePixelFormat") :
                 \E d \in Idx("DestroyWindow"), c \in Idx("CreateWindowEx") :
                    /\ i < d /\ d < c /\ c < j
                    /\ calls[d].arg = calls[i].arg
                    /\ calls[d].res = 1
                    /\ calls[c].res = calls[j].arg

C1_Witness ==
    /\ Returned /\ ret # 0
    /\ \E i \in Idx("wglCreateContext") : calls[i].res = initialContext
    /\ initialContext # NULL /\ initialContext # Garbage

\* The three failures of context creation, read from the call record.
ThrowawayCreateFailed ==
    \E i \in Idx("wglCreateContext") : calls[i].res = NULL

ThrowawayActivateFailed ==
    \E i \in Idx("wglCreateContext"), m \in Idx("wglMakeCurrent") :
        /\ calls[i].res # NULL
        /\ calls[m].arg = calls[i].res
        /\ calls[m].res = 0

FinalCreateFailed ==
    \E i \in Idx("wglCreateContextAttribsARB") : calls[i].res = NULL

\* C2: gs_context returns 0 whenever the throwaway context could not be
\* created, could not be made current, or the final context could not be
\* created.
C2_FailedContextReturnsZero ==
    (Returned /\ (ThrowawayCreateFailed \/ ThrowawayActivateFailed
                    \/ FinalCreateFailed))
        => ret = 0

C2_Witness == Returned /\ ThrowawayActivateFailed

\* C3: when gs_context returns 0 nothing the failed attempt created is left:
\* no window and no context of this attempt is live, display does not hold a
\* window of this attempt, and no context of this attempt is current.
C3_NothingLeftOnFailure ==
    (Returned /\ ret = 0) =>
        /\ \A w \in host.winLive : w < entry.nextWin
        /\ \A c \in host.ctxLive : c < entry.nextCtx
        /\ display < entry.nextWin
        /\ host.curCtx < entry.nextCtx

\* C4: when gs_get_initial_pixelformat returned 0, gs_context returns 0
\* without binding extensions, recreating the window or creating the final
\* context.
C4_NoInitialFormatStops ==
    (initial_pixelFormat = 0
       /\ pc \in {"bind", "recreate", "final_format", "final_context", "done"}
       /\ Idx("ChoosePixelFormat") # {})
        => /\ Returned /\ ret = 0
           /\ Idx("wglGetProcAddress") = {}
           /\ Idx("DestroyWindow") = {}
           /\ Idx("wglCreateContextAttribsARB") = {}

\* C5: when one of the entry points did not resolve, binding is the last
\* thing gs_context does and it returns 0: no window is destroyed or created
\* and no final context is created afterwards.
C5_BindingAllOrNothing ==
    \A b \in Idx("wglGetProcAddress") :
        (gs_ext # ExtNames) =>
            /\ b = Len(calls)
            /\ pc \in {"done", "idle"}
            /\ ret = 0

C5_Witness ==
    /\ Returned
    /\ Idx("wglGetProcAddress") # {}
    /\ Cardinality(gs_ext) = Cardinality(ExtNames) - 1

\* C6: when the attribute chooser found no format for window #2,
\* gs_get_pixelformat reports 0, gs_context returns 0 and no final context is
\* asked for.
C6_NoFinalFormatStops ==
    \A i \in Idx("wglChoosePixelFormatARB") :
        calls[i].res = 0 =>
            /\ pixelformat = 0
            /\ pc \in {"done", "idle"}
            /\ ret = 0
            /\ Idx("wglCreateContextAttribsARB") = {}

\* C7: the window is shown only after the final context was created and
\* successfully made current.
C7_ShownOnlyWhenCurrent ==
    \A s \in Idx("ShowWindow") :
        \E k \in Idx("wglCreateContextAttribsARB"), m \in Idx("wglMakeCurrent") :
            /\ k < m /\ m < s
            /\ calls[k].res # NULL
            /\ calls[m].arg = calls[k].res
            /\ calls[m].res = 1

\* C8: a gs_context run that follows a successful one does not attempt the
\* class registration again and does not fail because of it.
C8_RegisteredOnce ==
    (InRun /\ entry.context # NULL) => Idx("RegisterClassEx") = {}

\* C9: a gs_context call that follows a successful one returns the context
\* the earlier call returned, leaves display and shell alone and creates no
\* window and no context.
C9_SubsequentCallReturnsCurrent ==
    (Returned /\ entry.context # NULL) =>
        /\ ret = entry.context
        /\ display = entry.display
        /\ host.nextWin = entry.nextWin
        /\ host.nextCtx = entry.nextCtx


\* C10: for a window that is windowed and not maximized, entering fullscreen
\* and leaving it again, with no other window operation between the two
\* calls, leaves position, size, style and extended style as they were.
C10_ToggleRoundTrip ==
    (toggled.last = "exit" /\ ~IsZoomed(toggled.before)) =>
        /\ wnd.rect = toggled.before.rect
        /\ wnd.style = toggled.before.style
        /\ wnd.ex_style = toggled.before.ex_style
        /\ ~dev_fullscreen

C10_Witness ==
    /\ toggled.last = "exit"
    /\ ~IsZoomed(toggled.before)
    /\ toggled.before.rect.left # 0
    /\ toggled.before.rect # MonitorRect

\* The last operation was a dev_toggle_fullscreen call that left fullscreen.
LeftFullscreen == toggled.op = "toggle" /\ ~dev_fullscreen

\* C11: a window that was maximized when fullscreen was entered is maximized
\* again after the exit, and one that was not maximized is not maximized by
\* the exit.
C11_MaximizedComesBack ==
    LeftFullscreen => (IsZoomed(wnd) <=> IsZoomed(toggled.before))

C11_Witness == LeftFullscreen /\ IsZoomed(toggled.before) /\ IsZoomed(wnd)

\* The devResize events of the last operation: those handleInput received
\* while it ran, and one for each WM_EXITSIZEMOVE it posted, which
\* DispatchMessage hands to gs_wnd_proc later.
IsResize(e) == e.event = "devResize"
ResizesOfCall == Len(SelectSeq(inputs, IsResize)) + toggled.posts

\* C12: each call of dev_toggle_fullscreen, entering or exiting, results in
\* exactly one devResize for the consumer, the size notifications of the
\* transition itself counted.
C12_OneResizePerToggle == toggled.op = "toggle" => ResizesOfCall = 1

\* The four snapshot fields of a screenInfo.
SnapshotOf(ds) ==
    [maxed |-> ds.maxed, style |-> ds.style, ex_style |-> ds.ex_style,
     rect |-> ds.rect]

\* C13 as stated: whenever dev_fullscreen() returns 0 the snapshot fields
\* hold their cleared values.
C13_SnapshotClearedOutside ==
    ~dev_fullscreen => SnapshotOf(dev_screen) = SnapshotOf(dev_screen_init)

\* C13, amended: the snapshot is written only by a call that enters
\* fullscreen; the call that exits, and every other step, leaves the four
\* fields as the last entry wrote them.
C13_SnapshotWrittenOnEntry ==
    [][ SnapshotOf(dev_screen') # SnapshotOf(dev_screen)
            => (~dev_screen.full /\ dev_screen'.full) ]_vars

C13_Witness ==
    LeftFullscreen /\ SnapshotOf(dev_screen) # SnapshotOf(dev_screen_init)

\* ================================================== the event normalizer
\* Values of <windows.h> that gs_wnd_proc compares against.
WA_INACTIVE == 0
SC_KEYMENU  == 61696        \* 0xF100
WHEEL_DELTA == 120

\* Button codes of the device enumeration.
devMouseL == 160            \* 0xA0
devMouseM == 161            \* 0xA1
devMouseR == 162            \* 0xA2

\* A WPARAM is held as its two low 16 bit words, each in 0..65535 (the bits
\* above them are zero in every message of this model).
WParam(hi, lo) == [hi |-> hi, lo |-> lo]

\* LOWORD(wParam)
LOWORD_any_bit(w) == w.lo + w.hi
LOWORD(w) == w.lo

\* wParam & 0xfff0
MaskFFF0(w) == w.lo - (w.lo % 16)

\* (int)wParam and 'long key = wParam': WPARAM cut to 32 bits, signed.
ToInt(w) == (IF w.hi >= 32768 THEN w.hi - 65536 ELSE w.hi) * 65536 + w.lo

\* i >> 16 on a signed int (arithmetic shift): the floor of i / 65536.
Sar16(i) == IF i >= 0 THEN i \div 65536 ELSE -1 - ((-1 - i) \div 65536)

\* a / b of C for b > 0: the quotient is truncated toward zero.
CQuot_floor(a, b) == a \div b
CQuot(a, b) == IF a >= 0 THEN a \div b ELSE -((-a) \div b)

\* handleInput(event, data)
Event(e, d) == [event |-> e, data |-> d]

\* What one invocation of gs_wnd_proc did: its handleInput calls, its host
\* calls, and dev_win_alive afterwards.
Did(in, hostcalls, alive) == [in |-> in, host |-> hostcalls, alive |-> alive]

\* if (msg == WM_SYSKEYUP || msg == WM_KEYUP)
KeyUp_no_sys(msg) == msg = "WM_KEYUP"
KeyUp(msg) == msg = "WM_SYSKEYUP" \/ msg = "WM_KEYUP"

\* if (msg == WM_SYSKEYDOWN || msg == WM_KEYDOWN)
KeyDown(msg) == msg = "WM_SYSKEYDOWN" \/ msg = "WM_KEYDOWN"

\* case WM_?BUTTONDOWN: SetCapture(display); handleInput(devDown, button);
MouseDown(button, alive) ==
    Did(<< Event("devDown", button) >>, << "SetCapture" >>, alive)

\* case WM_?BUTTONUP: handleInput(devUp, button); ReleaseCapture();
MouseUp_keeps_capture(button, alive) ==
    Did(<< Event("devUp", button) >>, << >>, alive)
MouseUp(button, alive) ==
    Did(<< Event("devUp", button) >>, << "ReleaseCapture" >>, alive)

\* WM_SIZE's wParam as gs_wnd_proc_WM_SIZE reads it.
SizeKind(wParam) ==
    CASE wParam = WParam(0, 0) -> "SIZE_RESTORED"
      [] wParam = WParam(0, 1) -> "SIZE_MINIMIZED"
      [] wParam = WParam(0, 2) -> "SIZE_MAXIMIZED"
      [] OTHER                 -> "SIZE_MAXSHOW_OR_MAXHIDE"

\* case WM_CLOSE (os_windows.c 61-66): dev_win_alive = -2; PostQuitMessage(0);
gs_wnd_proc_WM_CLOSE_quit_only(alive) == Did(<< >>, << "PostQuitMessage" >>, alive)
gs_wnd_proc_WM_CLOSE(alive) == Did(<< >>, << "PostQuitMessage" >>, -2)

\* gs_wnd_proc (os_windows.c 37-147) on message msg with parameter wParam,
\* entered with dev_win_alive = alive.  Messages it passes on are marked by
\* the host call DefWindowProc.
gs_wnd_proc(alive, msg, wParam) ==
    CASE msg = "WM_ACTIVATE" ->
           IF LOWORD(wParam) # WA_INACTIVE
           THEN Did(<< Event("devFocusIn", 0) >>, << >>, alive)
           ELSE Did(<< Event("devFocusOut", 0) >>, << >>, alive)
      [] msg = "WM_SYSCOMMAND" ->
           IF MaskFFF0(wParam) = SC_KEYMENU
           THEN Did(<< >>, << >>, alive)
           ELSE Did(<< >>, << "DefWindowProc" >>, alive)
      [] msg = "WM_CLOSE" -> gs_wnd_proc_WM_CLOSE(alive)
      [] msg \in {"WM_KEYDOWN", "WM_KEYUP", "WM_SYSKEYDOWN", "WM_SYSKEYUP"} ->
           LET key  == ToInt(wParam)
               up   == IF KeyUp(msg) THEN << Event("devUp", key) >> ELSE << >>
               down == IF KeyDown(msg) THEN << Event("devDown", key) >> ELSE << >>
           IN  Did(up \o down,
                   IF msg = "WM_SYSKEYDOWN" \/ msg = "WM_SYSKEYUP"
                   THEN << "DefWindowProc" >> ELSE << >>,
                   alive)
      [] msg = "WM_LBUTTONDOWN" -> MouseDown(devMouseL, alive)
      [] msg = "WM_LBUTTONUP"   -> MouseUp(devMouseL, alive)
      [] msg = "WM_MBUTTONDOWN" -> MouseDown(devMouseM, alive)
      [] msg = "WM_MBUTTONUP"   -> MouseUp(devMouseM, alive)
      [] msg = "WM_RBUTTONDOWN" -> MouseDown(devMouseR, alive)
      [] msg = "WM_RBUTTONUP"   -> MouseUp(devMouseR, alive)
      [] msg = "WM_MOUSEWHEEL" ->
           LET scroll == CQuot(-1 * Sar16(ToInt(wParam)), WHEEL_DELTA)
           IN  Did(<< Event("devScroll", scroll) >>, << >>, alive)
      [] msg = "WM_SIZE" ->
           Did(gs_wnd_proc_WM_SIZE(<< >>, SizeKind(wParam)), << >>, alive)
      [] msg = "WM_EXITSIZEMOVE" ->
           Did(gs_wnd_proc_WM_EXITSIZEMOVE(<< >>), << >>, alive)
      [] OTHER ->
           Did(<< >>, << "DefWindowProc" >>, alive)

\* ------------------------------------------- the notifications considered
Note(msg, wParam) == [msg |-> msg, wParam |-> wParam]

\* VK_SHIFT, VK_CONTROL, VK_MENU (alt), VK_LWIN (meta).
ModifierKeys == {16, 17, 18, 91}

\* Virtual key codes: the modifiers, backspace, 'A', and the largest code.
KeyCodes == ModifierKeys \cup {8, 65, 254}

KeyNotes ==
    { Note(m, WParam(0, k)) : m \in {"WM_KEYDOWN", "WM_KEYUP", "WM_SYSKEYDOWN", "WM_SYSKEYUP"},
                   k \in KeyCodes }

\* Wheel rotations, in multiples and fractions of WHEEL_DELTA, up to the ends
\* of the signed 16 bit range.
WheelDeltas ==
    { -32768, -2 * WHEEL_DELTA, -WHEEL_DELTA - 1, -WHEEL_DELTA, 1 - WHEEL_DELTA,
      -1, 0, 1, WHEEL_DELTA - 1, WHEEL_DELTA, WHEEL_DELTA + 1, 2 * WHEEL_DELTA,
      32767 }

\* WM_MOUSEWHEEL's wParam: the rotation in the high word, the keys held down
\* (MK_CONTROL is 8) in the low word.
WheelParam(d, keys) == WParam((d + 65536) % 65536, keys)

WheelNotes == { Note("WM_MOUSEWHEEL", WheelParam(d, k)) : d \in WheelDeltas, k \in {0, 8} }

\* WM_ACTIVATE's wParam: WA_INACTIVE, WA_ACTIVE, WA_CLICKACTIVE in the low
\* word, the minimized flag in the high word.
ActivateNotes == { Note("WM_ACTIVATE", WParam(mn, st)) : st \in 0..2, mn \in 0..1 }

ButtonNotes ==
    { Note(m, WParam(0, 0)) : m \in {"WM_LBUTTONDOWN", "WM_LBUTTONUP", "WM_MBUTTONDOWN",
                          "WM_MBUTTONUP", "WM_RBUTTONDOWN", "WM_RBUTTONUP"} }

\* SC_KEYMENU, SC_KEYMENU with its low bits in use, SC_MAXIMIZE, SC_RESTORE,
\* SC_CLOSE; the five kinds of WM_SIZE; messages gs_wnd_proc has no case for.
OtherNotes ==
    { Note("WM_SYSCOMMAND", WParam(0, c)) :
          c \in {SC_KEYMENU, SC_KEYMENU + 1, 61488, 61728, 61536} }
    \cup { Note("WM_SIZE", WParam(0, k)) : k \in 0..4 }
    \cup { Note(m, WParam(0, 0)) :
             m \in {"WM_CLOSE", "WM_EXITSIZEMOVE", "WM_MOUSEMOVE", "WM_PAINT", "WM_MOVE"} }
    \cup { Note("WM_CHAR", WParam(0, 65)) }

Notifications == KeyNotes \cup WheelNotes \cup ActivateNotes \cup ButtonNotes \cup OtherNotes

\* ---------------------------------------- gs_wnd_proc, one call at a time
InitProc ==
    /\ InitBoot
    /\ variant = "os_windows"
    /\ dev_screen = dev_screen_init
    /\ wnd = NewWindow(Rect(0, 0, MinExtent, MinExtent))
    /\ posted = 0
    /\ inputs = << >>
    /\ toggled = NoToggle
    /\ LinuxIdle
    /\ dev_win_alive = 1
    /\ run_pc = "loop"
    /\ msgq = << >>
    /\ note \in Notifications
    /\ out = NoOut
    /\ received = << >>
    /\ produced = << >>
    /\ evq = EmptyQueue
    /\ run = NoRun

\* The host calls gs_wnd_proc with the notification at hand.
gs_wnd_proc_call ==
    /\ out = NoOut
    /\ out' = gs_wnd_proc(dev_win_alive, note.msg, note.wParam)
    /\ dev_win_alive' = out'.alive
    /\ UNCHANGED << run_pc, msgq, note, received, produced, evq, run >>
    /\ UNCHANGED bootVars
    /\ UNCHANGED screenVars
    /\ UNCHANGED linuxVars

\* The host has the next notification for the window.
NextNotification ==
    /\ out # NoOut
    /\ \E n \in Notifications : note' = n
    /\ out' = NoOut
    /\ UNCHANGED << dev_win_alive, run_pc, msgq, received, produced, evq, run >>
    /\ UNCHANGED bootVars
    /\ UNCHANGED screenVars
    /\ UNCHANGED linuxVars

NextProc ==
    \/ gs_wnd_proc_call
    \/ NextNotification

SpecProc == InitProc /\ [][NextProc]_vars

\* gs_wnd_proc has run on the notification at hand.
Delivered == out # NoOut

\* C16: one invocation of gs_wnd_proc makes no or exactly one handleInput
\* call; WM_ACTIVATE always makes exactly one, devFocusIn when the activation
\* state is not WA_INACTIVE and devFocusOut otherwise; a message gs_wnd_proc
\* has no case for makes none.
C16_AtMostOneEvent ==
    Delivered =>
        /\ Len(out.in) \in {0, 1}
        /\ note.msg = "WM_ACTIVATE" =>
             out.in = << Event(IF note.wParam.lo # 0 THEN "devFocusIn"
                                                     ELSE "devFocusOut", 0) >>
        /\ note.msg \in {"WM_MOUSEMOVE", "WM_PAINT", "WM_CHAR", "WM_MOVE"} =>
             out.in = << >>

C16_Witness ==
    /\ Delivered
    /\ note = Note("WM_ACTIVATE", WParam(1, 0))
    /\ out.in = << Event("devFocusOut", 0) >>

\* The notification at hand is a key message.
IsKeyNote == note.msg \in {"WM_KEYDOWN", "WM_KEYUP", "WM_SYSKEYDOWN", "WM_SYSKEYUP"}

\* C17: a key-down or key-up notification whose key code is shift, control,
\* alt or meta emits no event.
C17_ModifiersSuppressed ==
    (Delivered /\ IsKeyNote /\ note.wParam.lo \in ModifierKeys) => out.in = << >>

\* C18: a key notification of a non-modifier key emits exactly one event
\* carrying the raw key code: devDown for WM_KEYDOWN and WM_SYSKEYDOWN, devUp
\* for WM_KEYUP and WM_SYSKEYUP.
C18_KeyPassedThrough ==
    (Delivered /\ IsKeyNote /\ note.wParam.lo \notin ModifierKeys) =>
        out.in = << Event(IF note.msg \in {"WM_KEYDOWN", "WM_SYSKEYDOWN"}
                          THEN "devDown" ELSE "devUp",
                          note.wParam.lo) >>

C18_Witness ==
    /\ Delivered
    /\ note = Note("WM_SYSKEYUP", WParam(0, 65))
    /\ out.in = << Event("devUp", 65) >>

\* The down message, the up message and the code of each mouse button.
Buttons ==
    { [down |-> "WM_LBUTTONDOWN", up |-> "WM_LBUTTONUP", code |-> devMouseL],
      [down |-> "WM_MBUTTONDOWN", up |-> "WM_MBUTTONUP", code |-> devMouseM],
      [down |-> "WM_RBUTTONDOWN", up |-> "WM_RBUTTONUP", code |-> devMouseR] }

\* C19: for each of the three buttons, button-down takes the input capture
\* and emits devDown with the button's code, button-up emits devUp with the
\* button's code and releases the capture.
C19_CapturePairing ==
    Delivered =>
        \A b \in Buttons :
            /\ note.msg = b.down =>
                 /\ out.in = << Event("devDown", b.code) >>
                 /\ out.host = << "SetCapture" >>
            /\ note.msg = b.up =>
                 /\ out.in = << Event("devUp", b.code) >>
                 /\ out.host = << "ReleaseCapture" >>

C19_Witness ==
    /\ Delivered
    /\ note.msg = "WM_MBUTTONUP"
    /\ out.in = << Event("devUp", devMouseM) >>
    /\ out.host = << "ReleaseCapture" >>

\* The signed raw delta of the wheel notification at hand: the high 16 bits
\* of wParam.
RawDelta == IF note.wParam.hi >= 32768 THEN note.wParam.hi - 65536 ELSE note.wParam.hi

\* C20: a wheel notification with raw delta d emits exactly one devScroll
\* whose amount is -(d / WHEEL_DELTA), the quotient truncated toward zero: a
\* non-zero amount has the sign opposite to d, and |d| < WHEEL_DELTA gives 0.
C20_ScrollAmount ==
    (Delivered /\ note.msg = "WM_MOUSEWHEEL") =>
        LET d   == RawDelta
            amt == out.in[1].data
        IN  /\ Len(out.in) = 1
            /\ out.in[1].event = "devScroll"
            /\ amt = IF d >= 0 THEN -(d \div WHEEL_DELTA) ELSE (-d) \div WHEEL_DELTA
            /\ amt # 0 => (amt > 0 <=> d < 0)
            /\ (d < WHEEL_DELTA /\ -d < WHEEL_DELTA) => amt = 0

C20_Witness ==
    /\ Delivered
    /\ note = Note("WM_MOUSEWHEEL", WheelParam(-WHEEL_DELTA - 1, 8))
    /\ out.in = << Event("devScroll", 1) >>

\* ============================================================== dev_run
\* The notifications the host queues during one run of dev_run.
MaxNotes == 3

\* PeekMessage(&msg, NULL, 0, 0, PM_REMOVE) on a queue that is not empty: the
\* oldest message, removed.
PeekMessage_newest(q) == [msg |-> q[Len(q)], rest |-> SubSeq(q, 1, Len(q) - 1)]
PeekMessage(q) == [msg |-> Head(q), rest |-> Tail(q)]

\* The messages the host queues for the thread of dev_run: five that make
\* gs_wnd_proc call handleInput once, two that make it call nothing (one of
\* them WM_CLOSE), and WM_QUIT.
QueueNotes ==
    { Note("WM_KEYDOWN", WParam(0, 65)), Note("WM_KEYUP", WParam(0, 65)),
      Note("WM_LBUTTONDOWN", WParam(0, 0)),
      Note("WM_MOUSEWHEEL", WheelParam(-WHEEL_DELTA, 0)),
      Note("WM_ACTIVATE", WParam(0, 1)),
      Note("WM_MOUSEMOVE", WParam(0, 0)), Note("WM_CLOSE", WParam(0, 0)),
      Note("WM_QUIT", WParam(0, 0)) }

\* The host after a first gs_context call of os_windows.c that succeeded:
\* window 1 and the throwaway context are gone, window 2 is shown, the final
\* context is current.  The call log starts empty for dev_run.
HostAfterBoot ==
    [ classRegistered |-> TRUE,
      winLive  |-> {2},
      winFmt   |-> (1 :> PlainFmt) @@ (2 :> AttrFmt),
      winShown |-> {2},
      ctxLive  |-> {2},
      ctxDC    |-> (1 :> 1) @@ (2 :> 2),
      curCtx   |-> 2,
      nextWin  |-> 3,
      nextCtx  |-> 3,
      capture  |-> NULL,
      down     |-> {},
      hidden   |-> FALSE,
      calls    |-> << >> ]

\* dev_run (os_windows.c 460-463) has called gs_context, which succeeded,
\* has set dev_win_alive to 1 and called prepRender; it is at the head of
\* its loop.
InitRun ==
    /\ variant = "os_windows"
    /\ pc = "idle"
    /\ runs = 1
    /\ host = HostAfterBoot
    /\ display = 2
    /\ shell = 2
    /\ context = 2
    /\ gs_ext = ExtNames
    /\ initialContext = 1
    /\ initial_pixelFormat = PlainFmt
    /\ pixelformat = AttrFmt
    /\ ret = 2
    /\ entry = [nextWin |-> 1, nextCtx |-> 1, context |-> NULL, display |-> NULL]
    /\ dev_screen = dev_screen_init
    /\ wnd = NewWindow(Rect(0, 0, MinExtent, MinExtent))
    /\ posted = 0
    /\ inputs = << >>
    /\ toggled = NoToggle
    /\ LinuxIdle
    /\ dev_win_alive = 1
    /\ run_pc = "loop"
    /\ msgq = << >>
    /\ note = NoNote
    /\ out = NoOut
    /\ received = << >>
    /\ produced = << >>
    /\ evq = EmptyQueue
    /\ run = [NoRun EXCEPT !.prep = 1]

\* The host appends a message to the thread's queue.
HostPost ==
    /\ Len(produced) < MaxNotes
    /\ \E n \in QueueNotes :
         /\ msgq' = Append(msgq, n)
         /\ produced' = Append(produced, n)
    /\ UNCHANGED << dev_win_alive, run_pc, note, out, received, evq, run >>
    /\ UNCHANGED bootVars
    /\ UNCHANGED screenVars
    /\ UNCHANGED linuxVars

\* The dev_dispose calls made in one run.
MaxDisposals == 2

\* wglDeleteContext(context); gs_display_dispose(display); as dev_run
\* (os_windows.c 479-480) and dev_dispose (493-494) call them.
Teardown(h, ctx, hwnd) == gs_display_dispose(wglDeleteContext(h, ctx), hwnd)

\* The renderFrame calls of one turn of the loop (os_windows.c 467-477): none
\* when WM_QUIT was taken, because dev_run returns at once, else one.
FramesOfTurn_when_idle(has, quit) == IF has THEN 0 ELSE 1
FramesOfTurn(has, quit) == IF quit THEN 0 ELSE 1

\* One turn of the loop of dev_run (os_windows.c 464-478).  PeekMessage takes
\* the oldest message if there is one: WM_QUIT ends dev_run at once, any
\* other message goes through DispatchMessage to gs_wnd_proc; then
\* renderFrame is called.  cb names the callback of this turn, if any, in
\* which the consumer calls dev_dispose.
dev_run_turn ==
    /\ run_pc = "loop"
    /\ dev_win_alive = 1
    /\ \E cb \in {"none", "handleInput", "renderFrame"} :
         LET has    == msgq # << >>
             m      == IF has THEN PeekMessage(msgq) ELSE [msg |-> NoNote, rest |-> msgq]
             quit   == has /\ m.msg.msg = "WM_QUIT"
             disp   == has /\ ~quit
             o      == IF disp THEN gs_wnd_proc(dev_win_alive, m.msg.msg, m.msg.wParam)
                               ELSE out
             frames == FramesOfTurn(has, quit)
         IN  /\ cb = "handleInput" => (disp /\ o.in # << >>)
             /\ cb = "renderFrame" => frames > 0
             /\ cb # "none" => run.disposals < MaxDisposals
             /\ msgq' = m.rest
             /\ note' = IF disp THEN m.msg ELSE note
             /\ out' = o
             /\ received' = IF disp THEN received \o o.in ELSE received
             /\ dev_win_alive' = IF quit \/ cb # "none" THEN -2
                                 ELSE IF disp THEN o.alive ELSE dev_win_alive
             /\ run_pc' = IF quit THEN "returned" ELSE run_pc
             /\ host' = IF cb = "none" THEN host ELSE Teardown(host, context, display)
             /\ run' = [ took       |-> IF has THEN 1 ELSE 0,
                         dispatched |-> IF disp THEN 1 ELSE 0,
                         frames     |-> frames,
                         cb         |-> cb,
                         disposals  |-> run.disposals + (IF cb = "none" THEN 0 ELSE 1),
                         streak     |-> IF cb = "none" THEN 0 ELSE 1,
                         logAt      |-> IF cb = "none" THEN run.logAt ELSE Len(host.calls),
                         prep       |-> run.prep ]
    /\ UNCHANGED << produced, evq >>
    /\ UNCHANGED << variant, pc, runs, display, shell, context, gs_ext,
                    initialContext, initial_pixelFormat, pixelformat, ret, entry >>
    /\ UNCHANGED screenVars
    /\ UNCHANGED linuxVars

\* The loop has ended (os_windows.c 479-481): wglDeleteContext(context);
\* gs_display_dispose(display).
dev_run_end ==
    /\ run_pc = "loop"
    /\ dev_win_alive # 1
    /\ run_pc' = "disposed"
    /\ host' = Teardown(host, context, display)
    /\ run' = [run EXCEPT !.streak = 0, !.cb = "none"]
    /\ UNCHANGED << dev_win_alive, msgq, note, out, received, produced, evq >>
    /\ UNCHANGED << variant, pc, runs, display, shell, context, gs_ext,
                    initialContext, initial_pixelFormat, pixelformat, ret, entry >>
    /\ UNCHANGED screenVars
    /\ UNCHANGED linuxVars

\* dev_dispose (os_windows.c 491-495), called after dev_run has returned.
dev_dispose ==
    /\ run_pc \in {"returned", "disposed"}
    /\ run.disposals < MaxDisposals
    /\ dev_win_alive' = -2
    /\ host' = Teardown(host, context, display)
    /\ run' = [run EXCEPT !.disposals = @ + 1, !.streak = @ + 1, !.cb = "none",
                          !.logAt = Len(host.calls)]
    /\ UNCHANGED << run_pc, msgq, note, out, received, produced, evq >>
    /\ UNCHANGED << variant, pc, runs, display, shell, context, gs_ext,
                    initialContext, initial_pixelFormat, pixelformat, ret, entry >>
    /\ UNCHANGED screenVars
    /\ UNCHANGED linuxVars

NextRun ==
    \/ HostPost
    \/ dev_run_turn
    \/ dev_run_end
    \/ dev_dispose

SpecRun == InitRun /\ [][NextRun]_vars

\* The loop of dev_run keeps running as long as the callbacks return: a turn
\* that can be taken is taken, and so is the way out of the loop.
SpecRunLive ==
    InitRun /\ [][NextRun]_vars /\ WF_vars(dev_run_turn) /\ WF_vars(dev_run_end)

\* ------------------------------------------------------- mouse capture
SetCapture(h, hwnd) == [h EXCEPT !.capture = hwnd]
ReleaseCapture(h) == [h EXCEPT !.capture = NULL]
ShowCursor(h, show) == [h EXCEPT !.hidden = ~show]

\* The host after the capture calls gs_wnd_proc made, in order.
RECURSIVE HostDid(_, _, _)
HostDid(h, hostcalls, hwnd) ==
    IF hostcalls = << >> THEN h
    ELSE LET c  == Head(hostcalls)
             h1 == CASE c = "SetCapture"     -> SetCapture(h, hwnd)
                     [] c = "ReleaseCapture" -> ReleaseCapture(h)
                     [] OTHER                -> h
         IN  HostDid(h1, Tail(hostcalls), hwnd)

\* The message the host sends when button b goes down or up.
ButtonMsg(b, dn) ==
    CASE b = "L" -> IF dn THEN "WM_LBUTTONDOWN" ELSE "WM_LBUTTONUP"
      [] b = "M" -> IF dn THEN "WM_MBUTTONDOWN" ELSE "WM_MBUTTONUP"
      [] b = "R" -> IF dn THEN "WM_RBUTTONDOWN" ELSE "WM_RBUTTONUP"

\* The user presses or releases a mouse button and the loop of dev_run
\* dispatches the message to gs_wnd_proc (os_windows.c 87-122).
HostButton ==
    /\ Len(received) < MaxNotes
    /\ \E b \in {"L", "M", "R"} :
         LET dn == b \notin host.down
             n  == Note(ButtonMsg(b, dn), WParam(0, 0))
             o  == gs_wnd_proc(dev_win_alive, n.msg, n.wParam)
         IN  /\ host' = HostDid([host EXCEPT !.down = IF dn THEN @ \cup {b} ELSE @ \ {b}],
                                o.host, display)
             /\ note' = n
             /\ out' = o
             /\ received' = received \o o.in
    /\ UNCHANGED << dev_win_alive, run_pc, msgq, produced, evq, run >>
    /\ UNCHANGED << variant, pc, runs, display, shell, context, gs_ext,
                    initialContext, initial_pixelFormat, pixelformat, ret, entry >>
    /\ UNCHANGED screenVars
    /\ UNCHANGED linuxVars

\* dev_show_cursor (os_windows.c 554-564), called by the application.
dev_show_cursor ==
    /\ \E show \in BOOLEAN :
         host' = ShowCursor(IF show THEN ReleaseCapture(host)
                                    ELSE SetCapture(host, display), show)
    /\ UNCHANGED inputVars
    /\ UNCHANGED << variant, pc, runs, display, shell, context, gs_ext,
                    initialContext, initial_pixelFormat, pixelformat, ret, entry >>
    /\ UNCHANGED screenVars
    /\ UNCHANGED linuxVars

NextMouse == HostButton \/ dev_show_cursor

SpecMouse == InitRun /\ [][NextMouse]_vars

\* dev_run from its first statement: the bootstrap of os_windows.c, whatever
\* the host answers, then the loop.
InitStart == Init /\ variant = "os_windows"

\* dev_run (os_windows.c 461-463) after gs_context has returned:
\* "dev_win_alive = 1; prepRender();".
dev_run_prep ==
    /\ pc = "idle"
    /\ runs = 1
    /\ run_pc = "idle"
    /\ dev_win_alive' = 1
    /\ run_pc' = "loop"
    /\ run' = [run EXCEPT !.prep = 1]
    /\ UNCHANGED << msgq, note, out, received, produced, evq >>
    /\ UNCHANGED bootVars
    /\ UNCHANGED screenVars
    /\ UNCHANGED linuxVars

NextStart ==
    \/ gs_context_enter
    \/ gs_context_register
    \/ gs_context_window1
    \/ gs_context_initial_format
    \/ gs_context_initial_context
    \/ gs_context_bind
    \/ gs_context_recreate
    \/ gs_context_final_format
    \/ gs_context_final_context
    \/ gs_context_return
    \/ dev_run_prep
    \/ dev_run_turn
    \/ dev_run_end

SpecStart == InitStart /\ [][NextStart]_vars

\* The handleInput calls gs_wnd_proc makes for each message of q, in order.
RECURSIVE EventsOf(_)
EventsOf(q) ==
    IF q = << >> THEN << >>
    ELSE gs_wnd_proc(1, Head(q).msg, Head(q).wParam).in \o EventsOf(Tail(q))

\* Every message of q makes gs_wnd_proc call handleInput exactly once.
OneEventEach(q) ==
    \A i \in 1..Len(q) : Len(gs_wnd_proc(1, q[i].msg, q[i].wParam).in) = 1

\* C14: when each of the notifications queued so far produces exactly one
\* event, the consumer has received the events of the notifications taken
\* from the queue, in the order the notifications were queued: with the
\* events of the notifications still waiting they make up the events of all
\* of them, none lost, doubled or out of place.
C14_DeliveredInOrder ==
    OneEventEach(produced) =>
        /\ received \o EventsOf(msgq) = EventsOf(produced)
        /\ Len(received) + Len(msgq) = Len(produced)

C14_Witness ==
    /\ OneEventEach(produced)
    /\ Len(produced) = MaxNotes
    /\ msgq = << >>
    /\ received = << Event("devDown", 65), Event("devScroll", 1), Event("devUp", 65) >>

\* ======================================================= the event queue
\* Events written beyond the capacity of the queue in one run.
MaxOverflow == 1

\* The producer writes e at rear and advances rear; on a full queue this
\* overwrites the oldest unread event.  front is left to poll.
QueuePush(q, e) ==
    [q EXCEPT !.buf[q.rear] = e,
              !.rear = (q.rear + 1) % Capacity,
              !.count = IF q.count = Capacity THEN Capacity ELSE q.count + 1,
              !.pushed = Append(@, e)]

\* poll on a queue that is not empty: the event at front, front advanced.
QueuePoll(q) ==
    [q EXCEPT !.front = (q.front + 1) % Capacity,
              !.count = q.count - 1,
              !.polled = Append(@, q.buf[q.front]),
              !.atFirstPoll = IF @ = -1 THEN Len(q.pushed) ELSE @]

InitQueue ==
    /\ InitBoot
    /\ variant = "os_windows"
    /\ dev_screen = dev_screen_init
    /\ wnd = NewWindow(Rect(0, 0, MinExtent, MinExtent))
    /\ posted = 0
    /\ inputs = << >>
    /\ toggled = NoToggle
    /\ LinuxIdle
    /\ InputIdle

\* The notification handler writes a key event; its data numbers the events.
QueueWrite ==
    /\ Len(evq.pushed) < Capacity + MaxOverflow
    /\ \E kind \in {"devDown", "devUp"} :
         evq' = QueuePush(evq, Event(kind, Len(evq.pushed) + 1))
    /\ UNCHANGED << dev_win_alive, run_pc, msgq, note, out, received, produced, run >>
    /\ UNCHANGED bootVars
    /\ UNCHANGED screenVars
    /\ UNCHANGED linuxVars

\* The consumer polls and gets the oldest queued event.
QueueRead ==
    /\ evq.count > 0
    /\ evq' = QueuePoll(evq)
    /\ UNCHANGED << dev_win_alive, run_pc, msgq, note, out, received, produced, run >>
    /\ UNCHANGED bootVars
    /\ UNCHANGED screenVars
    /\ UNCHANGED linuxVars

NextQueue ==
    \/ QueueWrite
    \/ QueueRead

SpecQueue == InitQueue /\ [][NextQueue]_vars

\* C15: after capacity+1 events were written before any poll, exactly
\* capacity events can be read, and they are the most recent capacity events
\* in the order they were written.
C15_OverflowKeepsNewest ==
    (evq.atFirstPoll = Capacity + 1 /\ Len(evq.pushed) = Capacity + 1 /\ evq.count = 0)
        => evq.polled = SubSeq(evq.pushed, 2, Capacity + 1)

\* C21: devResize is emitted only for WM_EXITSIZEMOVE (the end of a size or
\* move gesture) or for a WM_SIZE that reports the window maximized; the
\* WM_SIZE the host sends with SIZE_RESTORED for each frame of a drag in
\* progress emits nothing.
C21_ResizeOnlyAtCompletion ==
    (Delivered /\ out.in # << >> /\ out.in[1].event = "devResize") =>
        \/ note.msg = "WM_EXITSIZEMOVE"
        \/ note = Note("WM_SIZE", WParam(0, 2))

\* The messages dev_run has taken from the queue so far, in order.
Taken == SubSeq(produced, 1, Len(produced) - Len(msgq))

\* C22: once WM_CLOSE has been handled dev_win_alive is not 1, in that state
\* and in every later state of the run.
C22_ClosedStaysClosed ==
    (\E i \in 1..Len(Taken) : Taken[i].msg = "WM_CLOSE") => dev_win_alive # 1

C22_Witness ==
    /\ Len(Taken) > 0
    /\ Taken[Len(Taken)].msg = "WM_CLOSE"
    /\ run_pc = "disposed"
    /\ run.disposals = 1
    /\ dev_win_alive = -2

\* C23: a turn of the loop takes at most one message; it dispatches the
\* message unless it is WM_QUIT; it calls renderFrame exactly once unless
\* WM_QUIT was taken, whether or not a message was waiting.
C23_TurnNeverWaits ==
    /\ run.took \in {0, 1}
    /\ run.took = 1 =>
         IF Taken[Len(Taken)].msg = "WM_QUIT"
         THEN run.dispatched = 0 /\ run.frames = 0
         ELSE run.dispatched = 1 /\ run.frames = 1
    /\ run.took = 0 =>
         /\ run.dispatched = 0
         /\ run = [NoRun EXCEPT !.prep = 1] \/ run.frames = 1

C23_Witness ==
    /\ run.took = 0
    /\ run.frames = 1
    /\ Len(Taken) > 0
    /\ run_pc = "loop"
    /\ dev_win_alive = 1

\* The host calls of the last dev_dispose call.
LastDisposeCalls == SubSeq(calls, run.logAt + 1, Len(calls))

\* C24: of two dev_dispose calls in a row the second is a no-op: it does not
\* delete the context, release the device context or destroy the window
\* again.
C24_SecondDisposeIsNoOp ==
    run.streak = 2 =>
        \A k \in 1..Len(LastDisposeCalls) :
            LastDisposeCalls[k].op \notin {"wglDeleteContext", "ReleaseDC", "DestroyWindow"}

\* C25: teardown goes context, device context, window: every ReleaseDC comes
\* right after wglMakeCurrent(NULL, NULL) and wglDeleteContext and after the
\* deletion of the rendering context, and every DestroyWindow right after the
\* ReleaseDC of the same window.
C25_TeardownOrder ==
    \A k \in 1..Len(calls) :
        /\ calls[k].op = "ReleaseDC" =>
             /\ k > 2
             /\ calls[k - 1].op = "wglDeleteContext"
             /\ calls[k - 2] = Call("wglMakeCurrent", NULL, 1)
             /\ \E j \in 1..(k - 1) : calls[j] = Call("wglDeleteContext", context, 1)
        /\ calls[k].op = "DestroyWindow" =>
             /\ k > 1
             /\ calls[k - 1].op = "ReleaseDC"
             /\ calls[k - 1].arg = calls[k].arg

C25_Witness ==
    /\ run_pc = "returned"
    /\ run.streak = 1
    /\ Len(calls) > 0
    /\ calls[Len(calls)] = Call("DestroyWindow", display, 1)

\* C30: when dev_run has torn down at its exit, the window and the context
\* have been destroyed at most once, also when a callback called dev_dispose
\* while dev_run was looping.
C30_DestroyedAtMostOnce ==
    (run_pc = "disposed" /\ run.streak = 0) =>
        /\ Cardinality({ k \in Idx("DestroyWindow") : calls[k].arg = display }) <= 1
        /\ Cardinality({ k \in Idx("wglDeleteContext") : calls[k].arg = context }) <= 1

\* ------------------------------------------------------------- dev_size
\* C26: the y dev_size reports is 0 exactly when the bottom edge of the
\* window is at the bottom edge of the primary screen, whatever the size of
\* the window's decoration.
C26_ZeroAtScreenBottom ==
    dev_size(wnd).y = 0 <=> wnd.rect.bottom = MonitorRect.bottom

\* C27: right after dev_set_size(x, y, w, h), with the decoration unchanged
\* and the placement applied as asked, dev_size reports (x, y, w, h).
C27_SetSizeRoundTrip == toggled.op = "set_size" => dev_size(wnd) = toggled.asked

C27_Witness ==
    /\ toggled.op = "set_size"
    /\ "WS_CAPTION" \in wnd.style
    /\ toggled.asked.y > 0
    /\ dev_size(wnd) = toggled.asked

\* ------------------------------------------------------- configuration
\* enum AppAttributes (os_linux.h 69-78).
GS_AppName == 0
GS_ShellX == 1
GS_ShellY == 2
GS_ShellWidth == 3
GS_ShellHeight == 4
GS_AlphaSize == 5
GS_DepthSize == 6

\* Setter calls explored in one behaviour, and the largest value passed.
MaxSets == 2
MaxValue == 2

\* "if (ok) { defaults.f = value; }".
SetIf_always(ok, d, f, value) == [d EXCEPT ![f] = value]
SetIf(ok, d, f, value) == IF ok THEN [d EXCEPT ![f] = value] ELSE d

\* gs_set_attr_l (os_linux.c 100-122): the defaults after the call.
gs_set_attr_l(d, attr, value) ==
    CASE attr = GS_ShellX      -> SetIf(value > 0, d, "gs_ShellX", value)
      [] attr = GS_ShellY      -> SetIf(value > 0, d, "gs_ShellY", value)
      [] attr = GS_ShellWidth  -> SetIf(value > 0, d, "gs_ShellWidth", value)
      [] attr = GS_ShellHeight -> SetIf(value > 0, d, "gs_ShellHeight", value)
      [] attr = GS_AlphaSize   -> SetIf(value >= 0, d, "gs_AlphaSize", value)
      [] attr = GS_DepthSize   -> SetIf(value >= 0, d, "gs_DepthSize", value)
      [] OTHER                 -> d

\* The attributes and values the setter is called with: every enumerator,
\* one number below and one above the enumeration.
AttrArgs == (GS_AppName - 1)..(GS_DepthSize + 1)
ValueArgs == -1..MaxValue

\* The setters are called before anything else has run.
InitAttr == Init

\* The application calls gs_set_attr_l(attr, value) before the window exists.
gs_set_attr_l_call ==
    /\ setter.n < MaxSets
    /\ \E attr \in AttrArgs, value \in ValueArgs :
         /\ defaults' = gs_set_attr_l(defaults, attr, value)
         /\ setter' = [op |-> "gs_set_attr_l", attr |-> attr, value |-> value,
                       before |-> defaults, n |-> setter.n + 1]
    /\ UNCHANGED << held, poll >>
    /\ UNCHANGED bootVars
    /\ UNCHANGED screenVars
    /\ UNCHANGED inputVars

NextAttr == gs_set_attr_l_call

SpecAttr == InitAttr /\ [][NextAttr]_vars

\* char gs_AppName[40]: the bytes of the buffer.
AppNameSize == 40

\* A char * argument: the null pointer, or the characters before the
\* terminator.
CString(null, chars) == [null |-> null, s |-> chars]
strlen(v) == Len(v.s)

\* gs_set_attr_s (os_linux.c 126-135): the defaults after the call.
gs_set_attr_s_up_to_40(d, attr, value) ==
    IF attr = GS_AppName /\ ~value.null /\ strlen(value) <= 40
    THEN [d EXCEPT !.gs_AppName = value.s]
    ELSE d
gs_set_attr_s(d, attr, value) ==
    CASE attr = GS_AppName ->
           IF ~value.null /\ strlen(value) < 40
           THEN [d EXCEPT !.gs_AppName = value.s]      \* strcpy
           ELSE d
      [] OTHER -> d

\* The strings the setter is called with: NULL, the empty string, and
\* strings one shorter than the buffer, as long as it, and one longer.
StrArgs ==
    { CString(TRUE, << >>) }
    \cup { CString(FALSE, [i \in 1..n |-> "x"]) :
              n \in {0, AppNameSize - 1, AppNameSize, AppNameSize + 1} }

\* The application calls gs_set_attr_s(attr, value).
gs_set_attr_s_call ==
    /\ setter.n < MaxSets
    /\ \E attr \in AttrArgs, value \in StrArgs :
         /\ defaults' = gs_set_attr_s(defaults, attr, value)
         /\ setter' = [op |-> "gs_set_attr_s", attr |-> attr, value |-> value,
                       before |-> defaults, n |-> setter.n + 1]
    /\ UNCHANGED << held, poll >>
    /\ UNCHANGED bootVars
    /\ UNCHANGED screenVars
    /\ UNCHANGED inputVars

NextName == gs_set_attr_s_call

SpecName == InitAttr /\ [][NextName]_vars

\* The field an attribute names, and the defaults with that field set.
FieldOf(attr) ==
    CASE attr = GS_ShellX      -> "gs_ShellX"
      [] attr = GS_ShellY      -> "gs_ShellY"
      [] attr = GS_ShellWidth  -> "gs_ShellWidth"
      [] attr = GS_ShellHeight -> "gs_ShellHeight"
      [] attr = GS_AlphaSize   -> "gs_AlphaSize"
      [] attr = GS_DepthSize   -> "gs_DepthSize"
Recognized(attr) == attr \in GS_ShellX..GS_DepthSize
Named(d, attr, value) == [d EXCEPT ![FieldOf(attr)] = value]
CalledSetL == setter.op = "gs_set_attr_l"

\* C29, as stated: a non-positive width or height, a negative alpha or depth
\* size, or an unrecognized attribute leaves every field as it was; any
\* other call sets exactly the named field to the value.
C29_InvalidIgnoredValidStored ==
    CalledSetL =>
        IF \/ ~Recognized(setter.attr)
           \/ setter.attr \in {GS_ShellWidth, GS_ShellHeight} /\ setter.value <= 0
           \/ setter.attr \in {GS_AlphaSize, GS_DepthSize} /\ setter.value < 0
        THEN defaults = setter.before
        ELSE defaults = Named(setter.before, setter.attr, setter.value)

\* C29, amended: a non-positive x or y is ignored as well; with that, invalid
\* and unrecognized calls change nothing and every other call sets exactly
\* the named field.
C29_NonPositivePositionIgnoredToo ==
    CalledSetL =>
        IF \/ ~Recognized(setter.attr)
           \/ setter.attr \in {GS_ShellX, GS_ShellY, GS_ShellWidth, GS_ShellHeight}
                /\ setter.value <= 0
           \/ setter.attr \in {GS_AlphaSize, GS_DepthSize} /\ setter.value < 0
        THEN defaults = setter.before
        ELSE defaults = Named(setter.before, setter.attr, setter.value)

\* A width was stored after a call that was ignored.
C29_Witness ==
    /\ CalledSetL
    /\ setter.attr = GS_ShellWidth
    /\ setter.value > 0
    /\ setter.before = AppDefaults
    /\ setter.n = 2
    /\ defaults = [AppDefaults EXCEPT !.gs_ShellWidth = setter.value]

\* ------------------------------------------------------------------ poll
\* Key modifier bit masks (os_linux.h 103-114), those of the keys followed.
GS_ShiftKeyMask == 1
GS_ControlKeyMask == 4
GS_AltKeyMask == 8
GS_FunctionKeyMask == 512
ModMasks == {GS_ShiftKeyMask, GS_ControlKeyMask, GS_AltKeyMask, GS_FunctionKeyMask}

\* gs_read_dispatch (os_linux.c 70-72): what *gs_urge holds after the call,
\* with modifier keys h held and events q pending. The body is empty.
gs_read_dispatch(gs_urge, h, q) == gs_urge

\* The poll loop starts with no key held and no event pending.
InitPoll == Init

\* The user presses or releases a modifier key; the host queues the event.
HostModifier ==
    /\ Len(msgq) < MaxNotes
    /\ \E k \in ModMasks :
         /\ held' = IF k \in held THEN held \ {k} ELSE held \cup {k}
         /\ msgq' = Append(msgq, [msg |-> IF k \in held THEN "KeyRelease" ELSE "KeyPress",
                                  key |-> k])
    /\ UNCHANGED << defaults, setter, poll >>
    /\ UNCHANGED << dev_win_alive, run_pc, note, out, received, produced, evq, run >>
    /\ UNCHANGED bootVars
    /\ UNCHANGED screenVars

\* The loop of os_linux_test.c 44-49: reset gsu, call gs_read_dispatch.
gs_read_dispatch_call ==
    /\ poll' = [done |-> TRUE, urge |-> gs_read_dispatch(CallerUrge, held, msgq),
                held |-> held, pending |-> Len(msgq)]
    /\ UNCHANGED << defaults, setter, held >>
    /\ UNCHANGED bootVars
    /\ UNCHANGED screenVars
    /\ UNCHANGED inputVars

NextPoll == HostModifier \/ gs_read_dispatch_call

SpecPoll == InitPoll /\ [][NextPoll]_vars

RECURSIVE MaskOf(_)
MaskOf(h) == IF h = {} THEN 0 ELSE LET k == CHOOSE k \in h : TRUE IN k + MaskOf(h \ {k})

\* C28: the modifier mask a poll reports is the mask of the modifier keys
\* held at that poll, whether or not the poll also returns an event.
C28_MaskIsHeldKeys == poll.done => poll.urge.mods = MaskOf(poll.held)

\* ------------------------------------------------------ dev_run, whole
\* C31: prepRender and renderFrame are called, and dev_win_alive is set to
\* 1, only if gs_context returned a context that is not 0.
C31_NoRenderWithoutContext ==
    (run.prep > 0 \/ run.frames > 0 \/ dev_win_alive = 1) => context # NULL

\* C32: whenever dev_run has returned, by either way out, the graphics
\* context has been deleted and the window destroyed.
C32_ReturnedMeansTornDown ==
    run_pc \in {"returned", "disposed"} =>
        (context \notin host.ctxLive /\ display \notin host.winLive)

\* C33: renderFrame is not called after the window and the context have
\* been destroyed: a turn in which handleInput called dev_dispose, during
\* DispatchMessage, calls no renderFrame.
C33_NoFrameAfterDispose == run.cb = "handleInput" => run.frames = 0

\* The last message dispatched was the close notification.
Closed == note.msg = "WM_CLOSE"
TornDown == context \notin host.ctxLive /\ display \notin host.winLive

Nested == IF toggled.op \in {"toggle", "set_size"} THEN Len(inputs) ELSE 0

\* C35: no handleInput call begins while another one is executing, also
\* when the handler calls dev_toggle_fullscreen or dev_set_size.
C35_HandlerNotReentered == Nested = 0

\* ---------------------------------------------------- fullscreen state
\* dev_toggle_fullscreen posts one WM_EXITSIZEMOVE per call and SpecSize
\* dispatches none, so there posted counts the calls made.
Toggles == posted

\* C36: whenever dev_fullscreen() returns 1 the window has neither caption
\* nor sizing frame and covers its monitor exactly, and dev_fullscreen()
\* returns 1 exactly after an odd number of dev_toggle_fullscreen calls.
C36_FullscreenCoversMonitor ==
    /\ dev_fullscreen => (wnd.style \cap FrameBits = {} /\ wnd.rect = MonitorRect)
    /\ dev_fullscreen <=> Toggles % 2 = 1

\* C37: the window has the mouse capture in every state in which a mouse
\* button is down or the cursor has been hidden with dev_show_cursor(0).
C37_CaptureWhileHeld ==
    (host.down # {} \/ host.hidden) => host.capture = display

\* ----------------------------------------------------- bootstrap windows
\* The first gs_context call of os_windows.c, on a host with no window yet.
FirstBoot ==
    variant = "os_windows" /\ pc # "idle" /\ runs = 0 /\ entry.nextWin = 1

\* C38: during the bootstrap there are never two windows nor two contexts
\* at once and window #1 is never shown; when gs_context returns a context
\* it has created exactly two windows, the first destroyed before the
\* second was created.
C38_OneWindowAtATime ==
    FirstBoot =>
        /\ Cardinality(host.winLive) <= 1
        /\ Cardinality(host.ctxLive) <= 1
        /\ entry.nextWin \notin host.winShown
        /\ \A i \in Idx("ShowWindow") : calls[i].arg # entry.nextWin
        /\ (Returned /\ ret # 0) =>
              /\ Cardinality(Idx("CreateWindowEx")) = 2
              /\ host.nextWin = entry.nextWin + 2
              /\ \E d \in Idx("DestroyWindow") :
                    /\ calls[d].arg = entry.nextWin
                    /\ calls[d].res = 1
                    /\ \E c \in Idx("CreateWindowEx") : d < c
                    /\ \E x \in Idx("wglDeleteContext") : x < d /\ calls[x].res = 1

C38_Witness ==
    /\ FirstBoot /\ Returned /\ ret # 0
    /\ host.winLive = {entry.nextWin + 1}
    /\ host.winShown = {entry.nextWin + 1}
    /\ host.ctxLive = {ret}

\* --------------------------------------------------- entering fullscreen
\* The call just made entered fullscreen.
JustEntered == toggled.op = "toggle" /\ toggled.last = "enter"

\* C39: entering fullscreen restores a maximized window first, then saves
\* style and rectangle, then strips the frame, then covers the monitor: the
\* saved rectangle is the normal (restored) one, never the maximized or the
\* fullscreen one, and the saved style still has the frame.
C39_SnapshotIsNormalPlacement ==
    /\ JustEntered =>
          /\ dev_screen.maxed = IsZoomed(toggled.before)
          /\ dev_screen.rect = toggled.before.normal
          /\ dev_screen.style = toggled.before.style \ {"WS_MAXIMIZE"}
          /\ dev_screen.ex_style = toggled.before.ex_style
          /\ wnd.style = dev_screen.style \ FrameBits
          /\ wnd.rect = MonitorRect
    /\ dev_fullscreen =>
          /\ dev_screen.rect # MonitorRect
          /\ "WS_MAXIMIZE" \notin dev_screen.style
          /\ FrameBits \subseteq dev_screen.style

C39_Witness ==
    /\ JustEntered
    /\ IsZoomed(toggled.before)
    /\ toggled.before.rect = MonitorRect
    /\ dev_screen.rect = toggled.before.normal

\* --------------------------------------------------- application name
CalledSetS == setter.op = "gs_set_attr_s"

\* C40: gs_set_attr_s(GS_AppName, v) stores v if v is not NULL and shorter
\* than 40 characters and else changes nothing, a call with another
\* attribute changes nothing, and the stored name with its terminator
\* always fits the 40 bytes of its buffer.
C40_NameFitsBuffer ==
    /\ Len(defaults.gs_AppName) + 1 <= AppNameSize
    /\ CalledSetS =>
          IF setter.attr = GS_AppName /\ ~setter.value.null /\ Len(setter.value.s) < 40
          THEN defaults = [setter.before EXCEPT !.gs_AppName = setter.value.s]
          ELSE defaults = setter.before

\* The longest name that fits was stored over another name.
C40_Witness ==
    /\ CalledSetS
    /\ setter.attr = GS_AppName
    /\ Len(setter.value.s) = AppNameSize - 1
    /\ defaults.gs_AppName = setter.value.s
    /\ setter.before.gs_AppName # setter.value.s

====
